---- MODULE Spec2Model ----
(***************************************************************************)
(* Travlr API: registration, login, the JWT route guard and the guarded    *)
(* trip mutations, as a state machine over the user store, the trip        *)
(* collection, the wall clock, the HTTP requests in flight, the            *)
(* environment of the server process and the admin client (the token in    *)
(* the storage of the browser and the calls that await their response).    *)
(*                                                                         *)
(* Strings are sequences of one-character strings, so that the setters,    *)
(* validators and sanitizers of the user schema are computed character by  *)
(* character.  In an e-mail address the domain is a single character:      *)
(* "x" stands for example.com and "g" for gmail.com.  In a password "0"   *)
(* is the NUL character (U+0000).                                          *)
(*                                                                         *)
(* The document store is taken to be reachable: a query or an insert fails *)
(* only for the reasons the schema gives (validation, the unique index).   *)
(* The server runs in UTC, so that Date.setDate(getDate() + 7) adds        *)
(* exactly seven times 24 hours.                                           *)
(***************************************************************************)
EXTENDS Integers, Sequences, FiniteSets, TLC

VARIABLES users, trips, reqs, now, env, client

vars == <<users, trips, reqs, now, env, client>>

-----------------------------------------------------------------------------
(* Bounds of the model *)

\* requests the model lets arrive in one behaviour
MaxReqs == 2

-----------------------------------------------------------------------------
(* Program constants *)

\* expiry.setDate(expiry.getDate() + 7)
ExpiryDays == 7
\* parseInt(expiry.getTime() / 1000, 10)
MsPerSec == 1000
\* maxlength: [50, ...] of the name path
MaxNameLen == 50
\* pbkdf2Sync(password, salt, 100000, 64, "sha512")
Iterations == 100000
KeyLen == 64
Digest == "sha512"

MsPerDay == 24 * 60 * 60 * MsPerSec
ExpiryMs == ExpiryDays * MsPerDay

\* the value the environment gives JWT_SECRET when it sets it; env is what
\* process.env.JWT_SECRET evaluates to, read when the guard is built and
\* when a token is signed
JWT_SECRET == "k"

\* process.env.JWT_SECRET of an environment that does not set it
Undefined == "undefined"

-----------------------------------------------------------------------------
(* Strings *)

\* String.prototype.toLowerCase over the alphabet of the model
LowerChar(c) == CASE c = "A" -> "a" [] c = "B" -> "b" [] OTHER -> c

ToLowerCase(s) == [i \in 1..Len(s) |-> LowerChar(s[i])]

RECURSIVE TrimLeft(_)
TrimLeft(s) == IF s # <<>> /\ Head(s) = " " THEN TrimLeft(Tail(s)) ELSE s

RECURSIVE TrimRight(_)
TrimRight(s) ==
  IF s # <<>> /\ s[Len(s)] = " " THEN TrimRight(SubSeq(s, 1, Len(s) - 1)) ELSE s

\* String.prototype.trim
Trim(s) == TrimRight(TrimLeft(s))

\* number of occurrences of the character c in s
Count(s, c) == Cardinality({i \in 1..Len(s) : s[i] = c})

\* index of the first occurrence of c in s, 0 when there is none
IndexOf(s, c) ==
  IF \E i \in 1..Len(s) : s[i] = c
    THEN CHOOSE i \in 1..Len(s) : s[i] = c /\ \A j \in 1..(i - 1) : s[j] # c
    ELSE 0

\* s without the occurrences of the character c
RECURSIVE Without(_, _)
Without(s, c) ==
  IF s = <<>> THEN <<>>
  ELSE IF Head(s) = c THEN Without(Tail(s), c)
  ELSE <<Head(s)>> \o Without(Tail(s), c)

-----------------------------------------------------------------------------
(* validator.js *)

LocalChars == {"a", "b", "A", "B", ".", "+"}
Domains == {<<"x">>, <<"g">>}

LocalPart(s) == SubSeq(s, 1, IndexOf(s, "@") - 1)
DomainPart(s) == SubSeq(s, IndexOf(s, "@") + 1, Len(s))

\* validator.isEmail with its default options: one "@", a domain that is a
\* fully qualified name, a non-empty local part of dot-separated atoms
IsEmail(s) ==
  /\ Count(s, "@") = 1
  /\ DomainPart(s) \in Domains
  /\ LET l == LocalPart(s) IN
       /\ l # <<>>
       /\ \A i \in 1..Len(l) : l[i] \in LocalChars
       /\ l[1] # "." /\ l[Len(l)] # "."
       /\ \A i \in 1..(Len(l) - 1) : ~(l[i] = "." /\ l[i + 1] = ".")

\* the string a failed normalizeEmail leaves in the path: String(false)
FalseStr == <<"f", "a", "l", "s", "e">>

\* validator.normalizeEmail(email, { all_lowercase: true }): the domain is
\* lowercased; for gmail.com the sub-address ("+...") and the dots of the
\* local part are removed and an empty local part makes the result false;
\* the local part is lowercased.  The schema casts the result to a string.
NormalizeEmail(s) ==
  LET domain == ToLowerCase(DomainPart(s))
      local == LocalPart(s)
  IN  IF domain = <<"g">>
        THEN LET plus == IndexOf(local, "+")
                 base == IF plus = 0 THEN local ELSE SubSeq(local, 1, plus - 1)
                 nodots == Without(base, ".")
             IN  IF nodots = <<>> THEN FalseStr
                 ELSE ToLowerCase(nodots) \o <<"@">> \o domain
        ELSE ToLowerCase(local) \o <<"@">> \o domain

\* validator.escape: the HTML entity of each markup character
EscapeChar(c) ==
  CASE c = "<" -> <<"&", "l", "t", ";">>
    [] c = ">" -> <<"&", "g", "t", ";">>
    [] c = "&" -> <<"&", "a", "m", "p", ";">>
    [] OTHER -> <<c>>

RECURSIVE Escape(_)
Escape(s) == IF s = <<>> THEN <<>> ELSE EscapeChar(Head(s)) \o Escape(Tail(s))

-----------------------------------------------------------------------------
(* crypto *)

\* SHA-512 works on blocks twice as long as its digest
BlockLen == 2 * KeyLen

RECURSIVE StripNul(_)
StripNul(k) ==
  IF k # <<>> /\ k[Len(k)] = "0" THEN StripNul(SubSeq(k, 1, Len(k) - 1)) ELSE k

\* The key block HMAC works with: a key longer than a block is replaced by
\* its digest, a shorter one is padded with NUL bytes up to the block, so
\* that trailing NUL bytes of the key do not count.
HmacKey(k) == IF Len(k) > BlockLen THEN <<"digest">> \o k ELSE StripNul(k)

\* crypto.pbkdf2Sync(password, salt, iterations, keylen, digest).toString("hex"):
\* a one-way function of the HMAC key block of the password and of the other
\* arguments, different arguments giving different keys
Pbkdf2Sync(password, salt, iterations, keylen, digest) ==
  [key |-> HmacKey(password), salt |-> salt, iterations |-> iterations,
   keylen |-> keylen, digest |-> digest]

\* crypto.randomBytes(16).toString("hex"): 128 random bits, a value no other
\* call returns; the value of the n-th call of the process is written n
RandomBytes(n) == n

-----------------------------------------------------------------------------
(* The user schema and its methods *)

NoHash == [key |-> <<>>, salt |-> 0, iterations |-> 0, keylen |-> 0, digest |-> ""]

\* the setters of the email path: lowercase, trim
EmailSetters(v) == Trim(ToLowerCase(v))

\* the setter of the name path: trim
NameSetters(v) == Trim(v)

\* new User(); user.name = ...; user.email = ...
NewUser(id, name, email) ==
  [_id |-> id, email |-> EmailSetters(email), name |-> NameSetters(name),
   salt |-> 0, hash |-> NoHash]

\* userSchema.methods.setPassword, salt being what randomBytes returned
setPassword(user, password, salt) ==
  [user EXCEPT !.salt = salt,
               !.hash = Pbkdf2Sync(password, salt, Iterations, KeyLen, Digest)]

\* userSchema.methods.validPassword
validPassword(user, password) ==
  user.hash = Pbkdf2Sync(password, user.salt, Iterations, KeyLen, Digest)

\* jwt.sign(payload, secret): HS256 over the payload, to which jsonwebtoken
\* adds the issued-at claim
NoToken == [alg |-> "none"]

Sign(payload, secret) == [over |-> payload, key |-> secret]

\* jwt.sign throws "secretOrPrivateKey must have a value"
Thrown == [alg |-> "throws"]

JwtSign(payload, secret, clock) ==
  LET claims == payload @@ [iat |-> clock \div MsPerSec]
  IN  IF secret = Undefined THEN Thrown
      ELSE [alg |-> "HS256", claims |-> claims, sig |-> Sign(claims, secret)]

\* generateJwt signing the whole document instead of the three fields
generateJwt_WholeUser(user, clock) ==
  LET expiry == clock + ExpiryMs
  IN  JwtSign(user @@ [exp |-> expiry \div MsPerSec], env, clock)

\* userSchema.methods.generateJwt, clock being what new Date() returned
generateJwt(user, clock) ==
  LET expiry == clock + ExpiryMs
  IN  JwtSign([_id |-> user._id, email |-> user.email, name |-> user.name,
               exp |-> expiry \div MsPerSec],
              env, clock)

\* the validators of the schema, run by save() before the pre-save hooks
Validates(user) ==
  /\ user.email # <<>>
  /\ IsEmail(user.email)
  /\ user.name # <<>>
  /\ Len(user.name) <= MaxNameLen

\* the paths whose validators fail
InvalidPaths(user) ==
  {p \in {"email"} : user.email = <<>> \/ ~IsEmail(user.email)}
  \cup {p \in {"name"} : user.name = <<>> \/ Len(user.name) > MaxNameLen}

\* userSchema.pre("save"): the assignments pass through the setters again
PreSave(user) ==
  [user EXCEPT !.email = EmailSetters(NormalizeEmail(user.email)),
               !.name = NameSetters(Escape(Trim(user.name)))]

\* the identifier under which a registration with the e-mail v is stored
Identifier(v) == EmailSetters(NormalizeEmail(EmailSetters(v)))

\* DuplicateKey of a collection without the unique index
DuplicateKey_NoIndex(store, doc) == FALSE

\* the unique index of the email path
DuplicateKey(store, doc) == \E u \in store : u.email = doc.email

\* FindByEmail with an empty filter
FindByEmail_Any(store, v) == store

\* User.findOne({ email: v }): the filter is cast through the setters of the path
FindByEmail(store, v) == {u \in store : u.email = EmailSetters(v)}

-----------------------------------------------------------------------------
(* jsonwebtoken.verify as express-jwt calls it *)

\* JwtVerify without the check of the signature
JwtVerify_Unsigned(token, secret, clock) ==
  IF token = NoToken THEN "credentials_required"
  ELSE IF token.alg # "HS256" THEN "invalid_algorithm"
  ELSE IF clock \div MsPerSec >= token.claims.exp THEN "jwt_expired"
  ELSE "ok"

\* JwtVerify taking the expiry as the last valid second
JwtVerify_LateExpiry(token, secret, clock) ==
  IF token = NoToken THEN "credentials_required"
  ELSE IF token.alg # "HS256" THEN "invalid_algorithm"
  ELSE IF token.sig # Sign(token.claims, secret) THEN "invalid_signature"
  ELSE IF clock \div MsPerSec > token.claims.exp THEN "jwt_expired"
  ELSE "ok"

\* "ok", or the reason the token is refused
JwtVerify(token, secret, clock) ==
  IF token = NoToken THEN "credentials_required"
  ELSE IF token.alg # "HS256" THEN "invalid_algorithm"
  ELSE IF token.sig # Sign(token.claims, secret) THEN "invalid_signature"
  ELSE IF clock \div MsPerSec >= token.claims.exp THEN "jwt_expired"
  ELSE "ok"

-----------------------------------------------------------------------------
(* Requests *)

NoUser == [_id |-> 0, email |-> <<>>, name |-> <<>>, salt |-> 0, hash |-> NoHash]
NoClaims == [_id |-> 0, email |-> <<>>, name |-> <<>>, exp |-> 0, iat |-> 0]

\* the body of a request of which the model keeps no field
NoBody == [name |-> <<>>, email |-> <<>>, password |-> <<>>]

LongName == [i \in 1..(MaxNameLen + 1) |-> "A"]

\* the bodies of the POST /register requests of the model
RegisterBodies ==
  { [name |-> <<"A">>, email |-> <<"a", "@", "x">>, password |-> <<"p">>],
    [name |-> <<" ", "<">>, email |-> <<" ", "A", "@", "x">>, password |-> <<"q">>],
    [name |-> <<"A">>, email |-> <<"a", ".", "b", "@", "g">>, password |-> <<"p">>],
    [name |-> <<"A">>, email |-> <<"+", "a", "@", "g">>, password |-> <<"p">>],
    [name |-> <<"A">>, email |-> <<"a", "b">>, password |-> <<"p">>],
    [name |-> LongName, email |-> <<"b", "@", "x">>, password |-> <<"p">>],
    [name |-> <<>>, email |-> <<"a", "@", "x">>, password |-> <<"p">>],
    [name |-> <<"A">>, email |-> <<>>, password |-> <<"p">>],
    [name |-> <<"A">>, email |-> <<"a", "@", "x">>, password |-> <<>>] }

\* the bodies of the POST /login requests of the model
LoginBodies ==
  { [name |-> <<>>, email |-> e, password |-> <<"p">>] :
      e \in { <<"a", "@", "x">>, <<"A", "@", "x", " ">>, <<"a", ".", "b", "@", "g">>,
              <<"b", "@", "x">>, <<>> } }
  \cup
  { [name |-> <<>>, email |-> <<"a", "@", "x">>, password |-> w] :
      w \in { <<"q">>, <<"p", "0">>, <<>> } }

\* the trip codes of the model
Codes == {"c1", "c2"}

\* the JSON bodies of the responses
NoJson == [unsent |-> TRUE]

\* { message: m }
Message(m) == [message |-> m]

\* a mongoose ValidationError as res.json serializes it: the failing paths
\* with the values they were given
ValidationError(doc) ==
  [name |-> "ValidationError", errors |-> [p \in InvalidPaths(doc) |-> doc[p]]]

\* the E11000 error of the driver as res.json serializes it
MongoServerError(doc) ==
  [code |-> 11000, keyPattern |-> {"email"}, keyValue |-> [email |-> doc.email]]

\* a request as it arrives.  Beside what the client sent and what the server
\* answered, the record keeps what the handler did: the states it went
\* through (trail), its reads and writes of the user store, whether it ran
\* the key derivation (hashed) and with what result (match), the token it
\* minted, whether it reached the trip mutation (mutated), and, for a
\* registration, whether a registration with the same identifier was
\* awaiting its save when it arrived (raced).
NewReq(kind, body, token, code, param) ==
  [kind |-> kind, body |-> body, token |-> token, code |-> code, param |-> param,
   pc |-> "Pending", status |-> 0, out |-> NoToken, json |-> NoJson,
   doc |-> NoUser, auth |-> NoClaims, trail |-> <<"Pending">>,
   reads |-> 0, writes |-> 0, hashed |-> FALSE, match |-> FALSE,
   minted |-> NoToken, mutated |-> FALSE, raced |-> FALSE]

\* the handler has built the body of its response
Json(r, body) == [r EXCEPT !.json = body]

\* res.status(status).json(...): the request is answered, with { token } or
\* with the body the handler built
Respond(r, status, token, state) ==
  [r EXCEPT !.pc = "done", !.status = status, !.out = token,
            !.json = IF token # NoToken THEN [token |-> token] ELSE r.json,
            !.trail = r.trail \o <<state>>]

Ids == 1..Len(reqs)

\* expressjwt({ secret, ... }) building a guard whatever the secret
ExpressJwt_NoCheck(secret) == "loaded"

\* expressjwt({ secret, ... }), called when the router module is loaded: it
\* throws when the secret is missing and the module, and with it the
\* application, fails to load
ExpressJwt(secret) == IF secret = Undefined THEN "RangeError" ELSE "loaded"

\* the application has loaded its routes and accepts requests
Listening == ExpressJwt(env) = "loaded"

Init ==
  /\ users = {}
  /\ trips = <<>>
  /\ reqs = <<>>
  /\ now = 0
  /\ env \in {JWT_SECRET, Undefined}
  /\ client = [storage |-> NoToken, pending |-> {}]

\* a client connects to the port of an application that failed to start
connect ==
  /\ ~Listening
  /\ Len(reqs) < MaxReqs
  /\ reqs' = Append(reqs,
       [NewReq("connection", [name |-> <<>>, email |-> <<>>, password |-> <<>>],
               NoToken, "", "") EXCEPT !.pc = "refused"])
  /\ UNCHANGED <<users, trips, now, env, client>>

\* the instants of the model at which something happens, in milliseconds: the
\* start, the last millisecond before a token minted at the start expires,
\* and the millisecond at which it expires
Instants == {0, ExpiryMs - 1, ExpiryMs}

\* time passes
Tick ==
  /\ \E t \in Instants : t > now /\ now' = t
  /\ UNCHANGED <<users, trips, reqs, env, client>>

-----------------------------------------------------------------------------
(* POST /register *)

\* register, up to "await user.save()"
RegisterStep(r, id, salt, clock) ==
  IF r.body.name = <<>> \/ r.body.email = <<>> \/ r.body.password = <<>>
    THEN Respond(Json(r, Message("All fields required")), 400, NoToken, "Rejected")
    ELSE LET user == setPassword(NewUser(id, r.body.name, r.body.email),
                                 r.body.password, salt)
             token == generateJwt(user, clock)
         IN  IF token = Thrown
               THEN [r EXCEPT !.pc = "unanswered", !.doc = user, !.hashed = TRUE,
                              !.trail = r.trail \o <<"Thrown">>]
               ELSE
             [r EXCEPT !.pc = "saving", !.doc = user, !.hashed = TRUE,
                       !.minted = token,
                       !.trail = r.trail \o <<"Saving">>,
                       !.raced = \E j \in Ids :
                                   /\ reqs[j].pc = "saving"
                                   /\ Identifier(reqs[j].body.email) =
                                        Identifier(r.body.email)]

register ==
  /\ Listening
  /\ Len(reqs) < MaxReqs
  /\ \E body \in RegisterBodies :
       LET id == Len(reqs) + 1 IN
         reqs' = Append(reqs,
                   RegisterStep(NewReq("register", body, NoToken, "", ""),
                                id, RandomBytes(id), now))
  /\ UNCHANGED <<users, trips, now, env, client>>

\* user.save(): validation, the pre-save hook, the insert; then the response
SaveOutcome(store, doc) ==
  IF ~Validates(doc) THEN "ValidationError"
  ELSE IF DuplicateKey(store, PreSave(doc)) THEN "DuplicateKey"
  ELSE "saved"

\* SaveResponse answering with the token whatever became of the save
SaveResponse_Early(r, outcome) ==
  Respond([r EXCEPT !.writes = IF outcome = "ValidationError" THEN 0 ELSE 1],
          200, r.minted, "Issued")

\* what register answers once save() has settled
SaveResponse(r, outcome) ==
  IF outcome = "saved"
    THEN Respond([r EXCEPT !.doc = PreSave(r.doc), !.writes = 1],
                 200, r.minted, "Issued")
    ELSE Respond([r EXCEPT !.writes = IF outcome = "DuplicateKey" THEN 1 ELSE 0,
                           !.json = IF outcome = "DuplicateKey"
                                      THEN MongoServerError(PreSave(r.doc))
                                      ELSE ValidationError(r.doc)],
                 400, NoToken, "Rejected")

\* Stored writing the document before save() has checked it
Stored_Always(store, doc, outcome) == store \cup {PreSave(doc)}

\* the collection after save(): the document is inserted, as the hook left
\* it, when validation and the unique index let it through
Stored(store, doc, outcome) ==
  IF outcome = "saved" THEN store \cup {PreSave(doc)} ELSE store

save(id) ==
  /\ reqs[id].pc = "saving"
  /\ LET outcome == SaveOutcome(users, reqs[id].doc)
     IN  /\ users' = Stored(users, reqs[id].doc, outcome)
         /\ reqs' = [reqs EXCEPT ![id] = SaveResponse(reqs[id], outcome)]
  /\ UNCHANGED <<trips, now, env, client>>

-----------------------------------------------------------------------------
(* POST /login *)

\* LoginStep without the check of the fields
LoginStep_Unchecked(r) ==
  [r EXCEPT !.pc = "verifying", !.trail = r.trail \o <<"Verifying">>]

\* login, up to the query of the local strategy
LoginStep(r) ==
  IF r.body.email = <<>> \/ r.body.password = <<>>
    THEN Respond(Json(r, Message("All fields required")), 400, NoToken, "Rejected")
    ELSE [r EXCEPT !.pc = "verifying", !.trail = r.trail \o <<"Verifying">>]

login ==
  /\ Listening
  /\ Len(reqs) < MaxReqs
  /\ \E body \in LoginBodies :
       reqs' = Append(reqs, LoginStep(NewReq("login", body, NoToken, "", "")))
  /\ UNCHANGED <<users, trips, now, env, client>>

\* VerifyStep without the check of the password
VerifyStep_AnyPassword(r, store, clock) ==
  LET found == FindByEmail(store, r.body.email)
      q == [r EXCEPT !.reads = 1]
  IN  IF found = {}
        THEN Respond(q, 401, NoToken, "Rejected")
        ELSE LET user == CHOOSE u \in found : TRUE
                 token == generateJwt(user, clock)
             IN  Respond([q EXCEPT !.doc = user, !.minted = token],
                         200, token, "Issued")

\* the verify callback of the local strategy, from the answer of
\* User.findOne on, and the callback login gave to passport.authenticate
VerifyStep(r, store, clock) ==
  LET found == FindByEmail(store, r.body.email)
      q == [r EXCEPT !.reads = 1]
  IN  IF found = {}
        THEN Respond(Json(q, Message("Incorrect username.")), 401, NoToken, "Rejected")
        ELSE LET user == CHOOSE u \in found : TRUE
                 c == [q EXCEPT !.doc = user, !.hashed = TRUE,
                                !.match = validPassword(user, r.body.password)]
             IN  IF ~c.match
                   THEN Respond(Json(c, Message("Incorrect password.")),
                                401, NoToken, "Rejected")
                   ELSE LET token == generateJwt(user, clock)
                        IN  IF token = Thrown
                              THEN Respond(Json(c, Message("secretOrPrivateKey")),
                                           404, NoToken, "Rejected")
                              ELSE Respond([c EXCEPT !.minted = token],
                                           200, token, "Issued")

verify(id) ==
  /\ reqs[id].pc = "verifying"
  /\ reqs' = [reqs EXCEPT ![id] = VerifyStep(reqs[id], users, now)]
  /\ UNCHANGED <<users, trips, now, env, client>>

-----------------------------------------------------------------------------
(* POST /trips and PUT /trips/:tripCode, behind the guard *)

\* the tokens the 200 responses have handed out so far
Issued == {reqs[i].out : i \in {j \in Ids : reqs[j].status = 200 /\ reqs[j].out # NoToken}}

\* an issued token whose payload was changed and whose signature was kept
Tampered(t) == [t EXCEPT !.claims.exp = @ + ExpiryMs \div MsPerSec]

\* a token signed with a key that is not the secret of the server
Forged ==
  LET claims == [_id |-> 1, email |-> <<"a", "@", "x">>, name |-> <<"A">>,
                 exp |-> 4 * (ExpiryMs \div MsPerSec), iat |-> 0]
  IN  [alg |-> "HS256", claims |-> claims, sig |-> Sign(claims, "attacker")]

\* what a client can put in the Authorization header
Presentable == {NoToken, Forged} \cup Issued \cup {Tampered(t) : t \in Issued}

\* tripsAddTrip / tripsUpdateTrip up to the query of getUser: without
\* req.auth or without its email getUser returns and nothing is sent
GetUserEntry(q) ==
  IF q.auth # NoClaims /\ q.auth.email # <<>>
    THEN [q EXCEPT !.pc = "getUser"]
    ELSE [q EXCEPT !.pc = "unanswered"]

\* the guard (express-jwt), then tripsAddTrip / tripsUpdateTrip up to the
\* query of getUser
GuardStep(r, clock) ==
  LET verdict == JwtVerify(r.token, env, clock)
  IN  IF verdict # "ok"
        THEN Respond(Json(r, Message(verdict)), 401, NoToken, "Unauthorized")
        ELSE GetUserEntry([r EXCEPT !.auth = r.token.claims,
                                    !.trail = r.trail \o <<"Authorized">>])

tripsRoute ==
  /\ Listening
  /\ Len(reqs) < MaxReqs
  /\ \E kind \in {"tripsAddTrip", "tripsUpdateTrip"}, token \in Presentable,
        code \in Codes, param \in Codes :
       /\ kind = "tripsAddTrip" => param = code /\ code = "c1"
       /\ kind = "tripsUpdateTrip" => param # code /\ code = "c2"
       /\ reqs' = Append(reqs,
            GuardStep(NewReq(kind, NoBody,
                             token, code,
                             IF kind = "tripsAddTrip" THEN "" ELSE param),
                      now))
  /\ UNCHANGED <<users, trips, now, env, client>>

\* GetUserStep calling the callback without looking at what findOne returned
GetUserStep_Unchecked(r, store) ==
  LET found == FindByEmail(store, r.auth.email)
  IN  [r EXCEPT !.reads = 1, !.pc = "mutating",
                !.doc = IF found = {} THEN NoUser ELSE CHOOSE u \in found : TRUE,
                !.trail = r.trail \o <<"Mutating">>]

\* getUser, from the answer of User.findOne on
GetUserStep(r, store) ==
  LET found == FindByEmail(store, r.auth.email)
      q == [r EXCEPT !.reads = 1]
  IN  IF found = {}
        THEN Respond(Json(q, Message("User not found")), 404, NoToken, "UserNotFound")
        ELSE [q EXCEPT !.pc = "mutating", !.doc = CHOOSE u \in found : TRUE,
                       !.trail = r.trail \o <<"Mutating">>]

getUser(id) ==
  /\ reqs[id].pc = "getUser"
  /\ reqs' = [reqs EXCEPT ![id] = GetUserStep(reqs[id], users)]
  /\ UNCHANGED <<users, trips, now, env, client>>

\* index of the first trip with the code, 0 when there is none
FirstTrip(coll, code) ==
  IF \E i \in 1..Len(coll) : coll[i] = code
    THEN CHOOSE i \in 1..Len(coll) :
           coll[i] = code /\ \A j \in 1..(i - 1) : coll[j] # code
    ELSE 0

\* Trip.create(...) and its response
tripsAddTrip(id) ==
  /\ reqs[id].pc = "mutating"
  /\ reqs[id].kind = "tripsAddTrip"
  /\ trips' = Append(trips, reqs[id].code)
  /\ reqs' = [reqs EXCEPT ![id] =
       Respond([reqs[id] EXCEPT !.mutated = TRUE, !.json = [code |-> reqs[id].code]],
               200, NoToken, "Sent")]
  /\ UNCHANGED <<users, now, env, client>>

\* Trip.findOneAndUpdate({ code: tripCode }, ...) and its response
tripsUpdateTrip(id) ==
  /\ reqs[id].pc = "mutating"
  /\ reqs[id].kind = "tripsUpdateTrip"
  /\ LET i == FirstTrip(trips, reqs[id].param)
         r == [reqs[id] EXCEPT !.mutated = TRUE]
     IN  IF i = 0
           THEN /\ trips' = trips
                /\ reqs' = [reqs EXCEPT ![id] =
                     Respond(Json(r, Message("Trip not found with code")),
                             404, NoToken, "Sent")]
           ELSE /\ trips' = [trips EXCEPT ![i] = reqs[id].code]
                /\ reqs' = [reqs EXCEPT ![id] =
                     Respond(Json(r, [code |-> reqs[id].code]), 200, NoToken, "Sent")]
  /\ UNCHANGED <<users, now, env, client>>

-----------------------------------------------------------------------------
(* GET /trips and GET /trips/:tripCode *)

\* !q: the result of find().exec() is an array, and an array, empty or not,
\* is not falsy
Not(q) == FALSE

\* Model.find({ code: tripCode }): the trips with the code
RECURSIVE Find(_, _)
Find(coll, code) ==
  IF coll = <<>> THEN <<>>
  ELSE (IF Head(coll) = code THEN <<Head(coll)>> ELSE <<>>) \o Find(Tail(coll), code)

\* what tripsList and tripsFindByCode answer once the query has settled
FindResponse(r, q, message) ==
  IF Not(q)
    THEN Respond(Json(r, Message(message)), 404, NoToken, "Sent")
    ELSE Respond(Json(r, [trips |-> q]), 200, NoToken, "Sent")

\* a GET request arrives; the handler awaits its query
tripsGet ==
  /\ Listening
  /\ Len(reqs) < MaxReqs
  /\ \E kind \in {"tripsList", "tripsFindByCode"}, param \in Codes :
       /\ kind = "tripsList" => param = "c1"
       /\ reqs' = Append(reqs,
            [NewReq(kind, NoBody, NoToken, "",
                    IF kind = "tripsList" THEN "" ELSE param)
               EXCEPT !.pc = "finding"])
  /\ UNCHANGED <<users, trips, now, env, client>>

tripsList(id) ==
  /\ reqs[id].pc = "finding"
  /\ reqs[id].kind = "tripsList"
  /\ reqs' = [reqs EXCEPT ![id] = FindResponse(reqs[id], trips, "No trips found")]
  /\ UNCHANGED <<users, trips, now, env, client>>

tripsFindByCode(id) ==
  /\ reqs[id].pc = "finding"
  /\ reqs[id].kind = "tripsFindByCode"
  /\ reqs' = [reqs EXCEPT ![id] =
       FindResponse(reqs[id], Find(trips, reqs[id].param), "Trip not found")]
  /\ UNCHANGED <<users, trips, now, env, client>>

Next ==
  \/ Tick
  \/ connect
  \/ register
  \/ \E id \in Ids : save(id)
  \/ login
  \/ \E id \in Ids : verify(id)
  \/ tripsRoute
  \/ \E id \in Ids : getUser(id)
  \/ \E id \in Ids : tripsAddTrip(id)
  \/ \E id \in Ids : tripsUpdateTrip(id)
  \/ tripsGet
  \/ \E id \in Ids : tripsList(id)
  \/ \E id \in Ids : tripsFindByCode(id)

Spec == Init /\ [][Next]_vars

-----------------------------------------------------------------------------
(* The router of part_001: the trip routes without the guard *)

\* POST /trips and PUT /trips/:tripCode: the handler is called with the
\* request as express made it, without req.auth
tripsRouteOpen ==
  /\ Len(reqs) < MaxReqs
  /\ \E kind \in {"tripsAddTrip", "tripsUpdateTrip"} :
       reqs' = Append(reqs,
         GetUserEntry(NewReq(kind, NoBody, NoToken,
                             IF kind = "tripsAddTrip" THEN "c1" ELSE "c2",
                             IF kind = "tripsAddTrip" THEN "" ELSE "c1")))
  /\ UNCHANGED <<users, trips, now, env, client>>

\* GET /trips and GET /trips/:tripCode
tripsGetOpen ==
  /\ Len(reqs) < MaxReqs
  /\ \E kind \in {"tripsList", "tripsFindByCode"}, param \in Codes :
       /\ kind = "tripsList" => param = "c1"
       /\ reqs' = Append(reqs,
            [NewReq(kind, NoBody, NoToken, "",
                    IF kind = "tripsList" THEN "" ELSE param)
               EXCEPT !.pc = "finding"])
  /\ UNCHANGED <<users, trips, now, env, client>>

NextOpen ==
  \/ Tick
  \/ tripsRouteOpen
  \/ tripsGetOpen
  \/ \E id \in Ids : tripsList(id)
  \/ \E id \in Ids : tripsFindByCode(id)

SpecOpen == Init /\ [][NextOpen]_vars

-----------------------------------------------------------------------------
(* The admin client: AuthenticationService and the text of a token *)

\* the printable ASCII characters, U+0020 to U+007E, in order ("GRAVE" is
\* U+0060, which a string of this language cannot hold)
Ascii ==
  <<
     " ", "!", "\"", "#", "$", "%", "&", "'", "(", ")", "*", "+", ",", "-",
     ".", "/", "0", "1", "2", "3", "4", "5", "6", "7", "8", "9", ":", ";",
     "<", "=", ">", "?", "@", "A", "B", "C", "D", "E", "F", "G", "H", "I",
     "J", "K", "L", "M", "N", "O", "P", "Q", "R", "S", "T", "U", "V", "W",
     "X", "Y", "Z", "[", "\\", "]", "^", "_", "GRAVE", "a", "b", "c", "d", "e",
     "f", "g", "h", "i", "j", "k", "l", "m", "n", "o", "p", "q", "r", "s",
     "t", "u", "v", "w", "x", "y", "z", "{", "|", "}", "~" >>

\* the code of a character, which is its one byte in UTF-8
CharCode(c) == 31 + IndexOf(Ascii, c)

Utf8(s) == [i \in 1..Len(s) |-> CharCode(s[i])]

\* the decimal digit d
Digit(d) == Ascii[17 + d]

\* Number.prototype.toString
RECURSIVE Dec(_)
Dec(n) == IF n < 10 THEN <<Digit(n)>> ELSE Dec(n \div 10) \o <<Digit(n % 10)>>

\* ObjectId.prototype.toJSON: 24 hexadecimal digits
Hex24(n) == [i \in 1..24 |-> IF i = 24 THEN Digit(n) ELSE Digit(0)]

\* the domain a domain character of the model stands for
DomainName(d) ==
  IF d = <<"g">> THEN <<"g", "m", "a", "i", "l", ".", "c", "o", "m">>
  ELSE IF d = <<"x">> THEN <<"e", "x", "a", "m", "p", "l", "e", ".", "c", "o", "m">>
  ELSE d

\* an address of the model written out
EmailText(e) ==
  IF Count(e, "@") = 1
    THEN LocalPart(e) \o <<"@">> \o DomainName(DomainPart(e))
    ELSE e

\* JSON.stringify of a string
RECURSIVE JsonChars(_)
JsonChars(t) ==
  IF t = <<>> THEN <<>>
  ELSE (IF Head(t) \in {"\"", "\\"} THEN <<"\\", Head(t)>> ELSE <<Head(t)>>)
       \o JsonChars(Tail(t))

JsonString(t) == <<"\"">> \o JsonChars(t) \o <<"\"">>

\* JSON.stringify of the claims of a token, in the order jwt.sign has them
Stringify(c) ==
  <<"{", "\"", "_", "i", "d", "\"", ":">> \o JsonString(Hex24(c._id))
  \o <<",", "\"", "e", "m", "a", "i", "l", "\"", ":">> \o JsonString(EmailText(c.email))
  \o <<",", "\"", "n", "a", "m", "e", "\"", ":">> \o JsonString(c.name)
  \o <<",", "\"", "e", "x", "p", "\"", ":">> \o Dec(c.exp)
  \o <<",", "\"", "i", "a", "t", "\"", ":">> \o Dec(c.iat) \o <<"}">>

\* the six-bit groups of a sequence of bytes, the last one filled with zeros
RECURSIVE Sextets(_)
Sextets(b) ==
  IF Len(b) = 0 THEN <<>>
  ELSE IF Len(b) = 1 THEN <<b[1] \div 4, (b[1] % 4) * 16>>
  ELSE IF Len(b) = 2
    THEN <<b[1] \div 4, (b[1] % 4) * 16 + b[2] \div 16, (b[2] % 16) * 4>>
  ELSE <<b[1] \div 4, (b[1] % 4) * 16 + b[2] \div 16,
         (b[2] % 16) * 4 + b[3] \div 64, b[3] % 64>>
       \o Sextets(SubSeq(b, 4, Len(b)))

\* the alphabets of base64url (RFC 4648, section 5), in which the segments
\* of a token are written, and of base64, which atob reads
Base64Common == SubSeq(Ascii, 34, 59) \o SubSeq(Ascii, 66, 91) \o SubSeq(Ascii, 17, 26)
Base64UrlAlphabet == Base64Common \o <<"-", "_">>
Base64Alphabet == Base64Common \o <<"+", "/">>

\* token.split(".")[1]: the claims of the token as jsonwebtoken wrote them,
\* base64url without padding
PayloadSegment(token) ==
  LET six == Sextets(Utf8(Stringify(token.claims)))
  IN  [i \in 1..Len(six) |-> Base64UrlAlphabet[six[i] + 1]]

\* atob throws on a character outside the base64 alphabet
AtobThrows(segment) ==
  \E i \in 1..Len(segment) : IndexOf(Base64Alphabet, segment[i]) = 0

\* JSON.parse(atob(token.split(".")[1])): the claims, atob inverting the
\* encoding of an ASCII text and JSON.parse inverting JSON.stringify
InvalidCharacterError == [thrown |-> "InvalidCharacterError"]

Payload(token) ==
  IF AtobThrows(PayloadSegment(token)) THEN InvalidCharacterError ELSE token.claims

\* AuthenticationService.isLoggedIn: "true", "false", or the exception
isLoggedIn(storage, clock) ==
  IF storage = NoToken THEN "false"
  ELSE LET payload == Payload(storage)
       IN  IF payload = InvalidCharacterError THEN "InvalidCharacterError"
           ELSE IF payload.exp * MsPerSec > clock THEN "true" ELSE "false"

\* getCurrentUser returning null
Null == [email |-> <<>>, name |-> <<>>]

\* AuthenticationService.getCurrentUser
getCurrentUser(storage, clock) ==
  LET logged == isLoggedIn(storage, clock)
  IN  IF logged = "InvalidCharacterError" THEN InvalidCharacterError
      ELSE IF logged = "false" THEN Null
      ELSE [email |-> Payload(storage).email, name |-> Payload(storage).name]

\* the User objects the forms of the admin client submit
ClientUsers ==
  { [name |-> <<"A">>, email |-> <<"a", "@", "x">>, password |-> <<"p">>],
    [name |-> <<"A", "n", "?">>, email |-> <<"b", "@", "x">>, password |-> <<"p">>] }

\* AuthenticationService.register, up to the response of the API
adminRegister ==
  /\ Listening
  /\ Len(reqs) < MaxReqs
  /\ \E user \in ClientUsers :
       LET id == Len(reqs) + 1 IN
         /\ reqs' = Append(reqs,
                      RegisterStep(NewReq("register", user, NoToken, "", ""),
                                   id, RandomBytes(id), now))
         /\ client' = [client EXCEPT !.pending = @ \cup {id}]
  /\ UNCHANGED <<users, trips, now, env>>

\* AuthenticationService.login, up to the response of the API
adminLogin ==
  /\ Listening
  /\ Len(reqs) < MaxReqs
  /\ \E user \in ClientUsers :
       /\ reqs' = Append(reqs, LoginStep(NewReq("login", user, NoToken, "", "")))
       /\ client' = [client EXCEPT !.pending = @ \cup {Len(reqs) + 1}]
  /\ UNCHANGED <<users, trips, now, env>>

\* the promise of a call settles: a 200 response runs saveToken with the
\* token of the body, an error response rejects the promise
receive(id) ==
  /\ id \in client.pending
  /\ reqs[id].pc = "done"
  /\ client' = [storage |-> IF reqs[id].status = 200
                              THEN reqs[id].json.token
                              ELSE client.storage,
                pending |-> client.pending \ {id}]
  /\ UNCHANGED <<users, trips, reqs, now, env>>

\* AuthenticationService.logout
logout ==
  /\ client' = [client EXCEPT !.storage = NoToken]
  /\ UNCHANGED <<users, trips, reqs, now, env>>

NextClient ==
  \/ Tick
  \/ adminRegister
  \/ adminLogin
  \/ \E id \in Ids : save(id)
  \/ \E id \in Ids : verify(id)
  \/ \E id \in Ids : receive(id)
  \/ logout

SpecClient == Init /\ [][NextClient]_vars

-----------------------------------------------------------------------------
(* Vocabulary of the properties *)

TripKinds == {"tripsAddTrip", "tripsUpdateTrip"}

\* the requests that arrive in the step
Arrived == {i \in 1..Len(reqs') : i > Len(reqs)}

\* the request i is answered in the step (on arrival or later)
AnsweredNow(i) ==
  /\ i \in 1..Len(reqs')
  /\ reqs'[i].pc = "done"
  /\ (i \in Ids => reqs[i].pc # "done")

SecondsOf(ms) == ms \div MsPerSec
ExpirySeconds == ExpiryDays * 24 * 60 * 60

\* an answered request stays as it was answered
Settled == \A i \in Ids : reqs[i].pc = "done" => reqs'[i] = reqs[i]

-----------------------------------------------------------------------------
(* C1 *)

\* what the guard must refuse: no Authorization header, a signature that
\* does not verify with the secret, an expiry that has passed
Refusable(token, clock) ==
  \/ token = NoToken
  \/ token.sig # Sign(token.claims, JWT_SECRET)
  \/ token.claims.exp * MsPerSec <= clock

C1_Arrival ==
  \A i \in Arrived :
    (reqs'[i].kind \in TripKinds /\ Refusable(reqs'[i].token, now)) =>
      /\ reqs'[i].pc = "done"
      /\ reqs'[i].status = 401
      /\ ~reqs'[i].mutated
      /\ trips' = trips

C1_Mutation ==
  \A i \in Ids :
    (reqs[i].kind \in TripKinds /\ trips' # trips /\ reqs'[i] # reqs[i]) =>
      /\ reqs[i].auth = reqs[i].token.claims
      /\ reqs[i].status = 0

\* C1: a POST /trips or PUT /trips/:tripCode request without Authorization
\* header, with a token whose signature does not verify or with an expired
\* token is answered 401 on arrival, the trip collection is left as it was,
\* the answer is final, and a trip is only ever written for a request the
\* guard has let through.
C1_GuardRejects == [][C1_Arrival /\ C1_Mutation /\ Settled]_vars

\* a request with a genuine token presented after its expiry was answered 401
C1_Witness ==
  \E i \in Ids :
    /\ reqs[i].kind \in TripKinds
    /\ reqs[i].token \in Issued
    /\ reqs[i].status = 401
    /\ now >= reqs[i].token.claims.exp * MsPerSec

-----------------------------------------------------------------------------
(* C5 *)

MissingFields(r) ==
  \/ r.kind = "login" /\ (r.body.email = <<>> \/ r.body.password = <<>>)
  \/ r.kind = "register" /\
       (r.body.name = <<>> \/ r.body.email = <<>> \/ r.body.password = <<>>)

\* C5: a login request without email or password and a register request
\* without name, email or password is answered 400 with no token, having
\* read and written nothing in the user store, derived no key and minted no
\* token.
C5_FailFast ==
  \A i \in Ids :
    MissingFields(reqs[i]) =>
      /\ reqs[i].pc = "done"
      /\ reqs[i].status = 400
      /\ reqs[i].out = NoToken
      /\ reqs[i].reads = 0
      /\ reqs[i].writes = 0
      /\ ~reqs[i].hashed
      /\ reqs[i].minted = NoToken
      /\ reqs[i].trail = <<"Pending", "Rejected">>

\* a register request without password and a login request without email
\* were both answered
C5_Witness ==
  \E i, j \in Ids :
    /\ reqs[i].kind = "register" /\ reqs[i].body.password = <<>>
    /\ reqs[j].kind = "login" /\ reqs[j].body.email = <<>>
    /\ reqs[i].status = 400 /\ reqs[j].status = 400

-----------------------------------------------------------------------------
(* C2 *)

LoginTrails ==
  { <<"Pending", "Rejected">>, <<"Pending", "Verifying">>,
    <<"Pending", "Verifying", "Issued">>, <<"Pending", "Verifying", "Rejected">> }

C2_Order ==
  \A i \in Ids :
    reqs[i].kind = "login" =>
      /\ reqs[i].trail \in LoginTrails
      /\ reqs[i].hashed => (reqs[i].reads = 1 /\ reqs[i].doc \in users)
      /\ reqs[i].minted # NoToken => (reqs[i].hashed /\ reqs[i].match)
      /\ reqs[i].out = reqs[i].minted
      /\ reqs[i].status = 200 <=> reqs[i].trail[Len(reqs[i].trail)] = "Issued"
      /\ reqs[i].status = 200 <=> reqs[i].out # NoToken

C2_Answer ==
  \A i \in 1..Len(reqs') :
    (reqs'[i].kind = "login" /\ AnsweredNow(i)) =>
      LET b == reqs'[i].body
          holders == {u \in users : /\ u.email = EmailSetters(b.email)
                                    /\ validPassword(u, b.password)}
      IN  /\ reqs'[i].status = 200 <=> holders # {}
          /\ reqs'[i].status = 200 =>
               \E u \in holders : reqs'[i].out = generateJwt(u, now)

\* C2: a login request goes Pending -> Verifying -> Issued or Rejected (or
\* Pending -> Rejected); it is answered 200 with a token minted at that
\* moment exactly when the store holds a record for the submitted identifier
\* whose salt and hash validPassword accepts the submitted password against;
\* the password is checked only after the record was read from the store and
\* the token minted only after the check succeeded.
C2_LoginFlow == []C2_Order /\ [][C2_Answer]_vars

\* a login whose e-mail the query had to cast was issued a token
C2_Witness ==
  \E i \in Ids :
    /\ reqs[i].kind = "login" /\ reqs[i].status = 200
    /\ reqs[i].trail = <<"Pending", "Verifying", "Issued">>
    /\ reqs[i].hashed /\ reqs[i].match
    /\ reqs[i].body.email # reqs[i].doc.email

-----------------------------------------------------------------------------
(* C4 *)

C4_Answer ==
  \A i \in 1..Len(reqs') :
    ( /\ reqs'[i].kind = "login" /\ AnsweredNow(i)
      /\ reqs'[i].body.password # <<>>
      /\ IsEmail(Trim(ToLowerCase(reqs'[i].body.email)))
      /\ \A u \in users : u.email # Identifier(reqs'[i].body.email) ) =>
        /\ reqs'[i].status \in {401, 404}
        /\ reqs'[i].out = NoToken

\* C4: a login with a password and a well-formed e-mail that is the identifier
\* of no stored record is answered with a failure status (401 or 404) and no
\* token.
C4_UnknownIdentifier == [][C4_Answer]_vars

\* a login with a well-formed e-mail nobody registered was refused while the
\* store held another user
C4_Witness ==
  \E i \in Ids :
    /\ reqs[i].kind = "login" /\ reqs[i].status = 401
    /\ reqs[i].reads = 1 /\ reqs[i].doc = NoUser
    /\ IsEmail(EmailSetters(reqs[i].body.email))
    /\ users # {}
    /\ \A u \in users : u.email # Identifier(reqs[i].body.email)

-----------------------------------------------------------------------------
(* C6 *)

C6_Answer ==
  \A i \in 1..Len(reqs') :
    ( /\ reqs'[i].kind = "register" /\ AnsweredNow(i)
      /\ \E u \in users : u.email = Identifier(reqs'[i].body.email) ) =>
        /\ reqs'[i].status = 400
        /\ reqs'[i].out = NoToken
        /\ users' = users

\* C6: a registration whose e-mail, normalized, is the identifier of a record
\* the store already holds is answered 400 with no token, and the store is
\* left as it was.
C6_DuplicateIdentifier == [][C6_Answer]_vars

\* a registration that passed validation was turned down by the unique index
C6_Witness ==
  \E i \in Ids :
    /\ reqs[i].kind = "register" /\ reqs[i].status = 400
    /\ reqs[i].writes = 1
    /\ \E u \in users : u.email = Identifier(reqs[i].body.email) /\ u._id # i

-----------------------------------------------------------------------------
(* C8 *)

\* all fields present, a valid e-mail, a name the schema accepts
WellFormed(b) ==
  /\ b.name # <<>> /\ b.email # <<>> /\ b.password # <<>>
  /\ IsEmail(Trim(ToLowerCase(b.email)))
  /\ Trim(b.name) # <<>>
  /\ Len(Trim(b.name)) <= MaxNameLen

C8_Answer ==
  \A i \in 1..Len(reqs') :
    ( /\ reqs'[i].kind = "register" /\ AnsweredNow(i)
      /\ WellFormed(reqs'[i].body)
      /\ \A u \in users : u.email # Identifier(reqs'[i].body.email) ) =>
        /\ reqs'[i].status = 200
        /\ reqs'[i].out # NoToken
        /\ reqs'[i].out.claims._id = i
        /\ \E u \in users' \ users :
             /\ users' = users \cup {u}
             /\ u._id = i
             /\ u.email = Identifier(reqs'[i].body.email)
             /\ validPassword(u, reqs'[i].body.password)

C8_TokenAfterSave ==
  \A i \in Ids :
    (reqs[i].kind = "register" /\ reqs[i].out # NoToken) =>
      /\ reqs[i].status = 200
      /\ reqs[i].writes = 1
      /\ \E u \in users : u._id = i

-----------------------------------------------------------------------------
(* C9 *)

C9_Mint ==
  \A i \in 1..Len(reqs') :
    ( /\ reqs'[i].minted # NoToken
      /\ i \in Ids => reqs[i].minted = NoToken ) =>
        LET c == reqs'[i].minted.claims
            u == IF reqs'[i].kind = "register"
                   THEN [_id |-> i, email |-> Trim(ToLowerCase(reqs'[i].body.email)),
                         name |-> Trim(reqs'[i].body.name)]
                   ELSE CHOOSE v \in users :
                          v.email = Trim(ToLowerCase(reqs'[i].body.email))
        IN  /\ c._id = u._id /\ c.email = u.email /\ c.name = u.name
            /\ c.exp = SecondsOf(now) + ExpirySeconds

C9_Validate ==
  \A i \in Arrived :
    (reqs'[i].kind \in TripKinds /\ reqs'[i].token \in Issued) =>
      IF now < reqs'[i].token.claims.exp * MsPerSec
        THEN reqs'[i].auth = reqs'[i].token.claims /\ reqs'[i].status # 401
        ELSE reqs'[i].auth = NoClaims /\ reqs'[i].status = 401

\* C9: a token generateJwt mints at time t carries the _id, email and name
\* of the user object it was minted for and exp = t + 7 days (in seconds);
\* the guard hands over exactly these claims at every time before exp and
\* refuses the token from exp on.
C9_TokenRoundTrip == [][C9_Mint /\ C9_Validate]_vars

\* the guard let through a token that was minted in the last second before
\* the first instant of expiry, with the claims it was minted with
C9_Witness ==
  \E i \in Ids :
    /\ reqs[i].kind \in TripKinds
    /\ reqs[i].token \in Issued
    /\ reqs[i].token.claims.iat = SecondsOf(ExpiryMs - 1)
    /\ reqs[i].token.claims.exp = SecondsOf(ExpiryMs - 1) + ExpirySeconds
    /\ reqs[i].auth = reqs[i].token.claims

-----------------------------------------------------------------------------
(* C3 *)

\* the registration that stored the record u
RegistrationOf(u) ==
  CHOOSE g \in Ids : reqs[g].kind = "register" /\ reqs[g].status = 200 /\ g = u._id

\* C3: a login with the identifier of a stored record and a password other
\* than the one the record was registered with is answered 401 with no token.
C3_WrongPassword ==
  \A i \in Ids :
    ( /\ reqs[i].kind = "login" /\ reqs[i].pc = "done"
      /\ reqs[i].doc \in users
      /\ reqs[i].body.password # <<>>
      /\ reqs[i].body.password # reqs[RegistrationOf(reqs[i].doc)].body.password ) =>
        /\ reqs[i].status = 401
        /\ reqs[i].out = NoToken

-----------------------------------------------------------------------------
(* C7 *)

Registrations == {i \in Ids : reqs[i].kind = "register"}

SameIdentifier(i) ==
  {j \in Registrations :
     Identifier(reqs[j].body.email) = Identifier(reqs[i].body.email)}

Granted(i) == reqs[i].status = 200 /\ reqs[i].out # NoToken

Denied(i) == reqs[i].status = 400 /\ reqs[i].out = NoToken

UniqueIdentifiers == \A u, v \in users : u.email = v.email => u = v

\* C7 as stated: of the registrations with one identifier that met in
\* flight, once all are answered, exactly one was answered 200 with a token
\* and the others 400 without, and no two records share an identifier.
C7_ExactlyOne ==
  /\ UniqueIdentifiers
  /\ \A i \in Registrations :
       (reqs[i].raced /\ \A j \in SameIdentifier(i) : reqs[j].pc = "done") =>
         /\ Cardinality({j \in SameIdentifier(i) : Granted(j)}) = 1
         /\ \A j \in SameIdentifier(i) : Granted(j) \/ Denied(j)

\* C7, amended: no two records share an identifier; of the registrations
\* with one identifier at most one is answered 200 with a token and every
\* other answered one 400 without; and one of them is answered 200 as soon as
\* one that is well formed has been answered.
C7_AtMostOne ==
  /\ UniqueIdentifiers
  /\ \A i \in Registrations :
       /\ reqs[i].pc = "done" => (Granted(i) \/ Denied(i))
       /\ Granted(i) => \A j \in SameIdentifier(i) : Granted(j) => j = i
       /\ (reqs[i].pc = "done" /\ WellFormed(reqs[i].body)) =>
            \E j \in SameIdentifier(i) : Granted(j)

\* two well-formed registrations with one identifier met in flight; the one
\* that arrived first was turned down by the index, the other answered 200
C7_Witness ==
  \E i, j \in Registrations :
    /\ i < j /\ j \in SameIdentifier(i) /\ reqs[j].raced
    /\ reqs[i].writes = 1 /\ Denied(i)
    /\ Granted(j)

-----------------------------------------------------------------------------
(* C10 *)

\* C10: validPassword, called with q on a record whose password was set to p,
\* returns true exactly when q = p.
C10_ExactPassword ==
  \A i \in Ids :
    (reqs[i].kind = "login" /\ reqs[i].hashed /\ reqs[i].doc \in users) =>
      (reqs[i].match <=>
         reqs[i].body.password = reqs[RegistrationOf(reqs[i].doc)].body.password)

-----------------------------------------------------------------------------
(* C11 *)

\* the keys under which a record keeps the password material
SecretKeys == {"hash", "salt"}

\* the keys of a JSON body, those of its nested objects included
Keys(json) ==
  DOMAIN json
  \cup (IF "errors" \in DOMAIN json THEN DOMAIN json.errors ELSE {})
  \cup (IF "keyValue" \in DOMAIN json THEN DOMAIN json.keyValue ELSE {})
  \cup (IF "token" \in DOMAIN json THEN DOMAIN json.token.claims ELSE {})

\* what C11 says of a request, ClaimKeys being the keys a token carries
NoSecretsOut(r, ClaimKeys) ==
  /\ r.minted # NoToken => DOMAIN r.minted.claims = ClaimKeys
  /\ r.out # NoToken => r.out = r.minted
  /\ r.pc = "done" => Keys(r.json) \cap SecretKeys = {}
  /\ (r.kind \in {"register", "login"} /\ r.status = 200) =>
       (r.out # NoToken /\ r.json = [token |-> r.out])

\* C11 as stated: no response body and no token carries a hash or a salt,
\* the claims of a token are exactly _id, email, name and exp, and a 200
\* response of register or login carries the token and nothing else.
C11_ExactClaims ==
  \A i \in Ids : NoSecretsOut(reqs[i], {"_id", "email", "name", "exp"})

\* C11, amended: no response body and no token carries a hash or a salt,
\* the claims of a token are exactly _id, email, name, exp and the iat that
\* jwt.sign adds, and a 200 response of register or login carries the token
\* and nothing else.
C11_NoSecretsOut ==
  \A i \in Ids : NoSecretsOut(reqs[i], {"_id", "email", "name", "exp", "iat"})

\* a login was answered with a token minted from a stored record, which
\* holds a salt and a hash
C11_Witness ==
  \E i \in Ids :
    /\ reqs[i].kind = "login" /\ reqs[i].status = 200
    /\ reqs[i].json = [token |-> reqs[i].minted]
    /\ reqs[i].doc \in users
    /\ reqs[i].doc.hash # NoHash

-----------------------------------------------------------------------------
(* C12 *)

\* C12: every record of the store has an identifier in normalized form (a
\* valid address that lowercasing, trimming and normalizeEmail leave as it
\* is, the one its registration's address normalizes to) and a name that is
\* the trimmed, HTML-escaped name of its registration.
C12_NormalizedRecords ==
  \A u \in users :
    LET b == reqs[RegistrationOf(u)].body IN
      /\ u.email = Identifier(b.email)
      /\ ToLowerCase(u.email) = u.email /\ Trim(u.email) = u.email
      /\ IsEmail(u.email) /\ NormalizeEmail(u.email) = u.email
      /\ u.name = Escape(Trim(b.name)) /\ Trim(u.name) = u.name

-----------------------------------------------------------------------------
(* C13 *)

\* C13: while the environment sets no JWT_SECRET the application serves
\* nothing: no request reaches a handler or the guard, none is answered, no
\* token is minted or handed out, no claims are attached to a request, no
\* trip is written and no user stored; and a token is only ever signed with
\* the secret of the environment.
C13_NoSecretNoService ==
  /\ env = Undefined =>
       /\ users = {} /\ trips = <<>>
       /\ \A i \in Ids :
            /\ reqs[i].kind = "connection" /\ reqs[i].pc = "refused"
            /\ reqs[i].status = 0 /\ reqs[i].json = NoJson
            /\ reqs[i].out = NoToken /\ reqs[i].minted = NoToken
            /\ reqs[i].auth = NoClaims /\ ~reqs[i].mutated
  /\ \A i \in Ids :
       reqs[i].minted # NoToken =>
         (env = JWT_SECRET /\ reqs[i].minted.sig.key = JWT_SECRET)

\* without the secret, two clients found the port closed
C13_Witness ==
  /\ env = Undefined
  /\ Len(reqs) = 2
  /\ \A i \in Ids : reqs[i].pc = "refused"

-----------------------------------------------------------------------------
(* C14 *)

Handlers ==
  {"register", "login", "tripsList", "tripsFindByCode", "tripsAddTrip",
   "tripsUpdateTrip"}

\* C14: no handler returns without having answered its request, and an
\* answer is a status code with a JSON body, sent once.
C14_AlwaysAnswered ==
  \A i \in Ids :
    reqs[i].kind \in Handlers =>
      /\ reqs[i].pc # "unanswered"
      /\ reqs[i].pc = "done" => (reqs[i].status # 0 /\ reqs[i].json # NoJson)
      /\ reqs[i].pc # "done" => (reqs[i].status = 0 /\ reqs[i].json = NoJson)

-----------------------------------------------------------------------------
(* C16 *)

\* C16: tripsList and tripsFindByCode answer 404 with a message when the
\* query matched no trip, and 200 with the matching trips otherwise.
C16_NotFoundWhenEmpty ==
  \A i \in Ids :
    (reqs[i].kind \in {"tripsList", "tripsFindByCode"} /\ reqs[i].pc = "done") =>
      \/ reqs[i].status = 404 /\ "message" \in DOMAIN reqs[i].json
      \/ reqs[i].status = 200 /\ "trips" \in DOMAIN reqs[i].json
                              /\ reqs[i].json.trips # <<>>

-----------------------------------------------------------------------------
(* C15 *)

C15_Frame ==
  /\ \A u \in users : u \in users'
  /\ users' # users =>
       \E i \in Ids :
         /\ reqs[i].kind = "register" /\ AnsweredNow(i)
         /\ reqs'[i].status = 200
         /\ users' = users \cup {reqs'[i].doc}
         /\ \A u \in users : u._id # i
         /\ \A j \in Ids \ {i} : reqs'[j] = reqs[j]

\* C15: a step never removes or changes a user record, and the only step
\* that adds one is the answer 200 of a register request, which adds the
\* record of that request; the steps of login, of a rejected register, of the
\* guard and of the trip operations leave the user store as it was.
C15_UsersFrame == [][C15_Frame]_vars

\* a stored record outlived a registration of the same identifier that was
\* turned down
C15_Witness ==
  \E i, j \in Registrations :
    /\ i # j
    /\ Granted(i) /\ Denied(j) /\ reqs[j].writes = 1
    /\ users = {reqs[i].doc}
    /\ validPassword(reqs[i].doc, reqs[i].body.password)

-----------------------------------------------------------------------------
(* C17 *)

\* the step is one of the request i
StepOf(i) == reqs'[i] # reqs[i]

C17_Step ==
  /\ trips' # trips =>
       \E i \in Ids : reqs[i].kind \in TripKinds /\ StepOf(i) /\ reqs'[i].mutated
  /\ \A i \in Ids :
       (reqs[i].kind \in TripKinds /\ StepOf(i)) =>
         /\ ~reqs[i].mutated
         /\ reqs'[i].mutated =>
              /\ reqs[i].pc = "mutating"
              /\ reqs[i].doc \in users
              /\ reqs[i].doc.email = reqs[i].auth.email
         /\ reqs[i].pc = "getUser" =>
              IF \E u \in users : u.email = reqs[i].auth.email
                THEN /\ reqs'[i].pc = "mutating"
                     /\ reqs'[i].doc \in users
                     /\ trips' = trips
                ELSE /\ reqs'[i].pc = "done" /\ reqs'[i].status = 404
                     /\ reqs'[i].json = Message("User not found")
                     /\ ~reqs'[i].mutated
                     /\ trips' = trips

-----------------------------------------------------------------------------
(* C19 *)

C19_Answer ==
  \A i \in 1..Len(reqs') :
    ( /\ reqs'[i].kind = "login" /\ AnsweredNow(i)
      /\ \E g \in Registrations :
           /\ Granted(g)
           /\ reqs[g].body.email = reqs'[i].body.email
           /\ reqs[g].body.password = reqs'[i].body.password ) =>
        /\ reqs'[i].status = 200
        /\ reqs'[i].out # NoToken

\* C19: a login that is answered after a register request with the same
\* email string and the same password was answered 200 is answered 200 with a
\* token.
C19_RegisterThenLogin == [][C19_Answer]_vars

-----------------------------------------------------------------------------
(* C20 *)

\* C20: the token a register request is answered with carries the email and
\* the name of the record that was stored, and a trip request the guard let
\* through with this token is not answered 404 "User not found".
C20_RegisterToken ==
  \A g \in Registrations :
    Granted(g) =>
      /\ reqs[g].out.claims.email = reqs[g].doc.email
      /\ reqs[g].out.claims.name = reqs[g].doc.name
      /\ \A i \in Ids :
           ( /\ reqs[i].kind \in TripKinds
             /\ reqs[i].token = reqs[g].out
             /\ reqs[i].auth = reqs[g].out.claims ) =>
               ~(reqs[i].status = 404 /\ reqs[i].json = Message("User not found"))

-----------------------------------------------------------------------------
(* C18 *)

\* a token is held in storage and its exp is later than the current time
HeldAndFresh ==
  /\ client.storage # NoToken
  /\ client.storage.claims.exp * MsPerSec > now

C18_State ==
  /\ isLoggedIn(client.storage, now) = (IF HeldAndFresh THEN "true" ELSE "false")
  /\ isLoggedIn(client.storage, now) = "false" =>
       getCurrentUser(client.storage, now) = Null

C18_Step ==
  /\ (client'.storage = NoToken /\ client.storage # NoToken) =>
       isLoggedIn(client'.storage, now') = "false"
  /\ (client'.storage # client.storage /\ client'.storage # NoToken) =>
       \E id \in client.pending :
         /\ reqs[id].status = 200 /\ client'.storage = reqs[id].out

\* C18: isLoggedIn() returns true exactly when a token is held in storage and
\* its exp is later than the current time, getCurrentUser() returns null
\* whenever isLoggedIn() is false, logout() makes isLoggedIn() false, and only
\* the 200 response of a login or register call puts a token in storage.
C18_LoggedInExactly == []C18_State /\ [][C18_Step]_vars

====
